---- MODULE Spec2Model ----
(***************************************************************************)
(* State-machine model of the grant scraper (src/scraper.py): the three    *)
(* source extractors, the scorer, the filter chain and the catalog store.  *)
(*                                                                         *)
(* Text is a sequence of tokens.  Keyword tokens ("h", "l", "x", "r", "g", *)
(* "s") stand for the configured keywords and the funding words, "_" is    *)
(* filler, " " is the separator score_grant joins fields with, and amount  *)
(* tokens ("0man", "1man", "hugeman", "5,000yen", "1oku") stand for the    *)
(* numeric-currency mentions parse_amount's three patterns recognise.      *)
(* Lengths are counted in tokens.  The display-only fields organization,   *)
(* status and amount_text are not modelled; the truncations [:300],        *)
(* [:500], [:3000] exceed every text of the model.                         *)
(***************************************************************************)
EXTENDS Integers, Sequences, FiniteSets, TLC

VARIABLES
    canpanPages,    \* remote: CANPAN listing pages, page i at index i
    canpanDetail,   \* remote: CANPAN detail page of each detail URL
    rssFeed,        \* remote: entries of the NPOWEB RSS feed
    jfcPage,        \* remote: the JFC top page
    file,           \* DATA_DIR/grants.json
    today,          \* the calendar date datetime.now() gives
    pc,             \* position of run()
    runs,           \* number of run() invocations started
    existing,       \* run(): what load_existing() returned
    existing_ids,   \* run(): ids of the loaded catalog
    all_grants,     \* run(): records aggregated so far
    unique,         \* run(): records after the URL dedup pass
    error,          \* the exception that aborted run(), "none" otherwise
    sGrant,         \* scorer check: the grant scored
    sKw,            \* scorer check: the keyword added to it
    sHigh,          \* scorer check: high-priority keyword list
    sLow,           \* scorer check: low-priority keyword list
    sBefore,        \* scorer check: score_grant of sGrant
    sAfter,         \* scorer check: score_grant of sGrant with sKw added
    sPc,            \* scorer check: position
    cPc,            \* scrape_canpan: position
    cPage,          \* scrape_canpan: page_num of the listing loop
    cGrants,        \* scrape_canpan: grants
    cSeen,          \* scrape_canpan: seen_urls
    cFetched,       \* scrape_canpan: grants whose detail page has been merged
    cLog            \* scrape_canpan: the requests _get has served, in order

worldVars == <<canpanPages, canpanDetail, rssFeed, jfcPage>>
runVars == <<file, today, pc, runs, existing, existing_ids, all_grants, unique, error>>
scoreVars == <<sGrant, sKw, sHigh, sLow, sBefore, sAfter, sPc>>
canpanVars == <<cPc, cPage, cGrants, cSeen, cFetched, cLog>>
vars == <<worldVars, runVars, scoreVars, canpanVars>>

(***************************************************************************)
(* Bounds of the model.                                                    *)
(***************************************************************************)
MaxEntries == 2     \* links + feed entries + anchors the remote sites hold
NumUrls == 3        \* distinct URLs
MaxDay == 2         \* calendar dates 1..MaxDay
MaxRuns == 2        \* invocations of run()
MaxTextLen == 2     \* scorer check: length of the scored name
MaxKeywords == 2    \* scorer check: length of the high-priority keyword list
MaxListed == 3      \* scrape_canpan check: links the CANPAN listing holds in all

Urls == 1..NumUrls
Days == 1..MaxDay

(***************************************************************************)
(* Policy (config.py).                                                     *)
(***************************************************************************)
HIGH_PRIORITY_KEYWORDS == << <<"h">> >>
LOW_PRIORITY_KEYWORDS == << <<"l">> >>
EXCLUDE_KEYWORDS == << <<"x">> >>
EXCLUDED_REGION_PATTERNS == << <<"r">> >>
SCORE_THRESHOLD == 2
AMOUNT_THRESHOLD == 10000
MAX_PAGES == 3

(***************************************************************************)
(* Utilities.                                                              *)
(***************************************************************************)
SeqsUpTo(S, n) == UNION {[1..k -> S] : k \in 0..n}

\* Python's `kw in text` on strings: kw occurs as a contiguous run of text.
Contains(kw, text) ==
    \E i \in 1..(Len(text) - Len(kw) + 1) : SubSeq(text, i, i + Len(kw) - 1) = kw

AnyContained(kws, text) == \E k \in 1..Len(kws) : Contains(kws[k], text)

\* Optional values: <<>> is None, <<v>> is the value v.
None == <<>>
Some(v) == <<v>>

\* hashlib.md5(url.encode()).hexdigest()[:10]: a digest of NumDigests values.
NumDigests == 2
md5_prefix(url) == url % NumDigests

make_id(source, url) == <<source, md5_prefix(url)>>

(***************************************************************************)
(* parse_amount: the three patterns, each match converted, the maximum     *)
(* returned.  float() of a digit string beyond the double range is inf,    *)
(* and int(inf) raises OverflowError, which the `except ValueError` of the *)
(* loops does not catch.                                                   *)
(***************************************************************************)
OkuTokens == {"1oku"}
ManTokens == {"0man", "1man", "hugeman"}
YenTokens == {"5,000yen"}
Mantissa(tok) ==
    CASE tok = "0man" -> 0
      [] tok = "1man" -> 1
      [] tok = "1oku" -> 1
      [] tok = "5,000yen" -> 5000
      [] OTHER -> 0
FloatIsInf(tok) == tok = "hugeman"

RECURSIVE amounts_of(_, _, _, _)
amounts_of(text, i, toks, mult) ==
    IF i > Len(text) THEN <<>>
    ELSE IF text[i] \in toks
         THEN <<Mantissa(text[i]) * mult>> \o amounts_of(text, i + 1, toks, mult)
         ELSE amounts_of(text, i + 1, toks, mult)

RECURSIVE SeqMax(_)
SeqMax(s) ==
    IF Len(s) = 1 THEN s[1]
    ELSE LET m == SeqMax(Tail(s)) IN IF s[1] >= m THEN s[1] ELSE m

parse_amount_raises(text) ==
    \E i \in 1..Len(text) : text[i] \in (OkuTokens \cup ManTokens) /\ FloatIsInf(text[i])

parse_amount(text) ==
    LET amounts == amounts_of(text, 1, OkuTokens, 100000000)
                   \o amounts_of(text, 1, ManTokens, 10000)
                   \o amounts_of(text, 1, YenTokens, 1)
    IN IF amounts = <<>> THEN None ELSE Some(SeqMax(amounts))

(***************************************************************************)
(* check_region: (eligible, region text).                                  *)
(***************************************************************************)
RECURSIVE first_excluded(_, _)
first_excluded(k, text) ==
    IF k > Len(EXCLUDED_REGION_PATTERNS) THEN 0
    ELSE IF Contains(EXCLUDED_REGION_PATTERNS[k], text) THEN k
    ELSE first_excluded(k + 1, text)

check_region(text) ==
    LET k == first_excluded(1, text)
        decl == {i \in 1..Len(text) : text[i] = "area:"}
    IN IF k # 0 THEN [ok |-> FALSE, region |-> EXCLUDED_REGION_PATTERNS[k]]
       ELSE IF decl # {}
            THEN LET i == CHOOSE j \in decl : \A j2 \in decl : j <= j2
                 IN [ok |-> TRUE, region |-> SubSeq(text, i + 1, Len(text))]
            ELSE [ok |-> TRUE, region |-> <<"unspecified">>]

(***************************************************************************)
(* score_grant.                                                            *)
(***************************************************************************)
score_text(grant) ==
    grant.name \o <<" ">> \o grant.summary \o <<" ">> \o grant.categories
    \o <<" ">> \o grant.full_text

RECURSIVE score_loop(_, _, _, _, _)
score_loop(kws, k, text, weight, acc) ==
    IF k > Len(kws) THEN acc
    ELSE IF Contains(kws[k], text)
         THEN score_loop(kws, k + 1, text, weight,
                         [score |-> acc.score + weight,
                          matched |-> Append(acc.matched, kws[k])])
         ELSE score_loop(kws, k + 1, text, weight, acc)

RECURSIVE count_loop(_, _, _, _, _)
count_loop(kws, k, text, weight, acc) ==
    IF k > Len(kws) THEN acc
    ELSE LET n == Cardinality({i \in 1..Len(text) :
                      i + Len(kws[k]) - 1 <= Len(text)
                      /\ SubSeq(text, i, i + Len(kws[k]) - 1) = kws[k]})
         IN count_loop(kws, k + 1, text, weight,
                       [score |-> acc.score + weight * n,
                        matched |-> IF n > 0 THEN Append(acc.matched, kws[k])
                                    ELSE acc.matched])

score_with_counting(grant, high, low) ==
    count_loop(low, 1, score_text(grant), 1,
               count_loop(high, 1, score_text(grant), 2,
                          [score |-> 0, matched |-> <<>>]))

score_with(grant, high, low) ==
    score_loop(low, 1, score_text(grant), 1,
               score_loop(high, 1, score_text(grant), 2,
                          [score |-> 0, matched |-> <<>>]))

score_grant(grant) == score_with(grant, HIGH_PRIORITY_KEYWORDS, LOW_PRIORITY_KEYWORDS)

(***************************************************************************)
(* Deadlines: "" (empty), a YYYY-MM-DD string naming calendar date `day`   *)
(* (ymd), or a string of that shape naming no calendar date (badymd, such  *)
(* as 2025-02-30), on which strptime raises ValueError.                    *)
(***************************************************************************)
NoDeadline == [shape |-> "empty", day |-> 0]
Ymd(d) == [shape |-> "ymd", day |-> d]
BadYmd == [shape |-> "badymd", day |-> 0]

(***************************************************************************)
(* The remote sites.  A CANPAN listing page is a failed fetch or the       *)
(* detail links it holds; a page past the last one holds no links.         *)
(***************************************************************************)
FailedPage == [ok |-> FALSE, links |-> <<>>]
EmptyPage == [ok |-> TRUE, links |-> <<>>]
FailedDetail == [ok |-> FALSE, text |-> <<>>, categories |-> <<>>, deadline |-> NoDeadline]
PlainDetail == [ok |-> TRUE, text |-> <<>>, categories |-> <<>>, deadline |-> NoDeadline]

CanpanLinkPool ==
    {[num |-> u, title |-> <<"h">>, closed |-> FALSE] : u \in Urls}
    \cup {[num |-> 1, title |-> <<>>, closed |-> FALSE],
          [num |-> 1, title |-> <<"h">>, closed |-> TRUE]}

DetailPool ==
    {FailedDetail,
     [ok |-> TRUE, text |-> <<"l">>, categories |-> <<>>, deadline |-> NoDeadline],
     [ok |-> TRUE, text |-> <<>>, categories |-> <<>>, deadline |-> Ymd(1)],
     [ok |-> TRUE, text |-> <<>>, categories |-> <<>>, deadline |-> BadYmd],
     [ok |-> TRUE, text |-> <<"hugeman">>, categories |-> <<>>, deadline |-> NoDeadline],
     [ok |-> TRUE, text |-> <<>>, categories |-> <<"x">>, deadline |-> NoDeadline]}

RssPool ==
    {[title |-> <<"g", "h">>, link |-> u, summary |-> <<>>] : u \in Urls}
    \cup {[title |-> <<"g", "h">>, link |-> 1, summary |-> s] :
            s \in {<<"l">>, <<"0man">>, <<"5,000yen">>, <<"1man">>, <<"hugeman">>, <<"r">>}}
    \cup {[title |-> <<"g", "l">>, link |-> 1, summary |-> <<>>],
          [title |-> <<"No.", "g", "h">>, link |-> 1, summary |-> <<>>],
          [title |-> <<"h">>, link |-> 1, summary |-> <<>>]}

JfcPool ==
    {[title |-> <<"g", "h", "_", "_", "_">>, href |-> u] : u \in Urls}
    \cup {[title |-> <<"s", "h", "l", "_", "_">>, href |-> 1],
          [title |-> <<"g", "h">>, href |-> 1],
          [title |-> <<"h", "_", "_", "_", "_">>, href |-> 1],
          [title |-> <<"g", "h", "x", "_", "_">>, href |-> 1]}

(***************************************************************************)
(* scrape_canpan.                                                          *)
(***************************************************************************)
RECURSIVE canpan_links(_, _, _, _, _)
canpan_links(links, i, grants, seen_urls, now) ==
    IF i > Len(links) THEN [grants |-> grants, seen_urls |-> seen_urls]
    ELSE LET link == links[i]
             detail_url == link.num
         IN IF detail_url \in seen_urls
            THEN canpan_links(links, i + 1, grants, seen_urls, now)
            ELSE IF link.title = <<>> \/ link.closed
                 THEN canpan_links(links, i + 1, grants, seen_urls \cup {detail_url}, now)
                 ELSE canpan_links(links, i + 1,
                          Append(grants, [id |-> make_id("canpan", detail_url),
                                          name |-> link.title,
                                          url |-> detail_url,
                                          source |-> "CANPAN",
                                          found_date |-> now]),
                          seen_urls \cup {detail_url}, now)

listing_stops_on_failure_only(page) == ~page.ok

\* `if resp is None: break` and `if not grant_links: ... break`
listing_stops(page) == ~page.ok \/ page.links = <<>>

\* the response _get gives for listing page page_num
listing_page(pages, page_num) ==
    IF page_num <= Len(pages) THEN pages[page_num] ELSE EmptyPage

\* The listing loop: the grants collected and the number of listing requests made.
RECURSIVE canpan_pages(_, _, _, _, _)
canpan_pages(pages, page_num, grants, seen_urls, now) ==
    IF page_num > MAX_PAGES THEN [grants |-> grants, requests |-> page_num - 1]
    ELSE LET page == listing_page(pages, page_num)
         IN IF listing_stops(page) THEN [grants |-> grants, requests |-> page_num]
            ELSE LET r == canpan_links(page.links, 1, grants, seen_urls, now)
                 IN canpan_pages(pages, page_num + 1, r.grants, r.seen_urls, now)

scrape_canpan_detail_raises(page) == page.ok /\ parse_amount_raises(page.text)

scrape_canpan_detail(page) ==
    IF ~page.ok
    THEN [summary |-> <<>>, categories |-> <<>>, deadline |-> NoDeadline,
          amount_value |-> None, full_text |-> <<>>]
    ELSE [summary |-> page.text, categories |-> page.categories,
          deadline |-> page.deadline, amount_value |-> parse_amount(page.text),
          full_text |-> page.text]

scrape_canpan(pages, details, now) ==
    LET listed == canpan_pages(pages, 1, <<>>, {}, now).grants
    IN [raised |-> \E i \in 1..Len(listed) :
                       scrape_canpan_detail_raises(details[listed[i].url]),
        grants |-> [i \in 1..Len(listed) |->
                       LET g == listed[i]
                           d == scrape_canpan_detail(details[g.url])
                       IN [id |-> g.id, name |-> g.name, url |-> g.url,
                           source |-> g.source, summary |-> d.summary,
                           categories |-> d.categories, deadline |-> d.deadline,
                           amount_value |-> d.amount_value,
                           found_date |-> g.found_date, full_text |-> d.full_text]]]

(***************************************************************************)
(* scrape_npoweb_rss: the whole loop sits in try/except Exception, so an   *)
(* exception ends the loop and the grants collected so far are returned.   *)
(***************************************************************************)
RSS_FUNDING_WORDS == << <<"g">> >>
JFC_FUNDING_WORDS == << <<"g">>, <<"s">> >>
MinTitleLen == 5

is_bulletin(title) ==
    (Len(title) > 0 /\ title[1] = "No.")
    \/ (Contains(<<"new">>, title) /\ Contains(<<"items">>, title))

RECURSIVE rss_entries(_, _, _, _)
rss_entries(entries, i, grants, now) ==
    IF i > Len(entries) THEN grants
    ELSE LET e == entries[i]
         IN IF is_bulletin(e.title)
            THEN rss_entries(entries, i + 1, grants, now)
            ELSE IF ~AnyContained(RSS_FUNDING_WORDS, e.title \o e.summary)
            THEN rss_entries(entries, i + 1, grants, now)
            ELSE IF parse_amount_raises(e.summary) THEN grants
            ELSE rss_entries(entries, i + 1,
                     Append(grants, [id |-> make_id("npoweb", e.link),
                                     name |-> e.title, url |-> e.link,
                                     source |-> "NPOWEB", summary |-> e.summary,
                                     categories |-> <<>>, deadline |-> NoDeadline,
                                     amount_value |-> parse_amount(e.summary),
                                     found_date |-> now, full_text |-> e.summary]),
                     now)

scrape_npoweb_rss(entries, now) == rss_entries(entries, 1, <<>>, now)

(***************************************************************************)
(* scrape_jfc.                                                             *)
(***************************************************************************)
RECURSIVE jfc_anchors(_, _, _, _)
jfc_anchors(anchors, i, grants, now) ==
    IF i > Len(anchors) THEN grants
    ELSE LET a == anchors[i]
         IN IF a.title = <<>> \/ Len(a.title) < MinTitleLen
            THEN jfc_anchors(anchors, i + 1, grants, now)
            ELSE IF ~AnyContained(JFC_FUNDING_WORDS, a.title)
            THEN jfc_anchors(anchors, i + 1, grants, now)
            ELSE jfc_anchors(anchors, i + 1,
                     Append(grants, [id |-> make_id("jfc", a.href),
                                     name |-> a.title, url |-> a.href,
                                     source |-> "JFC", summary |-> <<>>,
                                     categories |-> <<>>, deadline |-> NoDeadline,
                                     amount_value |-> None,
                                     found_date |-> now, full_text |-> a.title]),
                     now)

scrape_jfc(page, now) == IF ~page.ok THEN <<>> ELSE jfc_anchors(page.anchors, 1, <<>>, now)

(***************************************************************************)
(* The catalog store.  grants.json is absent, not JSON, not UTF-8, a JSON  *)
(* list, or a JSON object (dict) with or without a usable "grants" list.   *)
(***************************************************************************)
DefaultCatalog == [kind |-> "dict", last_updated |-> None, grants |-> <<>>]

InitFiles ==
    {[kind |-> k, last_updated |-> None, grants |-> <<>>] :
        k \in {"absent", "not_json", "bad_utf8", "json_list", "dict_grants_null"}}
    \cup {[kind |-> "dict", last_updated |-> None, grants |-> <<[name |-> <<"h">>]>>]}

\* json.load under `except (json.JSONDecodeError, IOError)`.
load_existing(f) ==
    IF f.kind \in {"absent", "not_json"}
    THEN [raised |-> "none", value |-> DefaultCatalog]
    ELSE IF f.kind = "bad_utf8"
    THEN [raised |-> "UnicodeDecodeError", value |-> DefaultCatalog]
    ELSE [raised |-> "none", value |-> f]

\* {g["id"] for g in existing.get("grants", [])}
existing_ids_raises(e) ==
    IF e.kind = "json_list" THEN "AttributeError"
    ELSE IF e.kind = "dict_grants_null" THEN "TypeError"
    ELSE IF e.kind = "dict_no_grants" THEN "none"
    ELSE IF \E i \in 1..Len(e.grants) : "id" \notin DOMAIN e.grants[i] THEN "KeyError"
    ELSE "none"

ids_of(e) ==
    IF e.kind = "dict_no_grants" THEN {}
    ELSE {e.grants[i].id : i \in 1..Len(e.grants)}

save_grants(data) == [kind |-> "dict", last_updated |-> data.last_updated,
                      grants |-> data.grants]

(***************************************************************************)
(* run(): the URL dedup pass.                                              *)
(***************************************************************************)
RECURSIVE dedup_keep_last(_, _, _, _)
dedup_keep_last(grants, i, seen_urls, out) ==
    IF i > Len(grants) THEN out
    ELSE IF \E j \in (i + 1)..Len(grants) : grants[j].url = grants[i].url
         THEN dedup_keep_last(grants, i + 1, seen_urls, out)
         ELSE dedup_keep_last(grants, i + 1, seen_urls, Append(out, grants[i]))

RECURSIVE dedup(_, _, _, _)
dedup(grants, i, seen_urls, out) ==
    IF i > Len(grants) THEN out
    ELSE IF grants[i].url \notin seen_urls
         THEN dedup(grants, i + 1, seen_urls \cup {grants[i].url}, Append(out, grants[i]))
         ELSE dedup(grants, i + 1, seen_urls, out)

(***************************************************************************)
(* run(): scoring and the filter chain.                                    *)
(***************************************************************************)
\* `grant.get("amount_value") and grant["amount_value"] < AMOUNT_THRESHOLD`
truthy_amount(v) == v # None /\ v[1] # 0
amount_excluded(v) == truthy_amount(v) /\ v[1] < AMOUNT_THRESHOLD

deadline_excluded_inclusive(deadline, now) ==
    deadline.shape # "empty" /\ deadline.shape = "ymd" /\ deadline.day <= now

\* strptime(deadline, "%Y-%m-%d") under `except ValueError: pass`
deadline_excluded(deadline, now) ==
    deadline.shape # "empty" /\ deadline.shape = "ymd" /\ deadline.day < now

filter_keeps_name_only(grant, score, region_ok, now) ==
    /\ ~(score < SCORE_THRESHOLD)
    /\ region_ok
    /\ ~AnyContained(EXCLUDE_KEYWORDS, grant.name)
    /\ ~amount_excluded(grant.amount_value)
    /\ ~deadline_excluded(grant.deadline, now)

filter_keeps(grant, score, region_ok, now) ==
    /\ ~(score < SCORE_THRESHOLD)
    /\ region_ok
    /\ ~AnyContained(EXCLUDE_KEYWORDS, grant.name \o grant.categories)
    /\ ~amount_excluded(grant.amount_value)
    /\ ~deadline_excluded(grant.deadline, now)

is_new_always(id, ids) == TRUE
is_new(id, ids) == id \notin ids

RECURSIVE filter_loop(_, _, _, _, _)
filter_loop(grants, i, filtered, ids, now) ==
    IF i > Len(grants) THEN filtered
    ELSE LET grant == grants[i]
             sc == score_grant(grant)
             rg == check_region(grant.full_text)
         IN IF filter_keeps(grant, sc.score, rg.ok, now)
            THEN filter_loop(grants, i + 1,
                     Append(filtered,
                            [id |-> grant.id, name |-> grant.name, url |-> grant.url,
                             source |-> grant.source, summary |-> grant.summary,
                             categories |-> grant.categories,
                             deadline |-> grant.deadline,
                             amount_value |-> grant.amount_value,
                             found_date |-> grant.found_date,
                             relevance_score |-> sc.score,
                             matched_keywords |-> sc.matched,
                             region |-> rg.region,
                             is_new |-> is_new(grant.id, ids)]),
                     ids, now)
            ELSE filter_loop(grants, i + 1, filtered, ids, now)

(***************************************************************************)
(* run(): filtered.sort(key=relevance_score, reverse=True), a stable sort. *)
(***************************************************************************)
\* position after the last element whose score is >= (stable) or > (ties reversed)
insert_at(sorted, g, k) == SubSeq(sorted, 1, k) \o <<g>> \o SubSeq(sorted, k + 1, Len(sorted))

RECURSIVE sort_ties_reversed(_, _, _)
sort_ties_reversed(grants, i, sorted) ==
    IF i > Len(grants) THEN sorted
    ELSE LET g == grants[i]
             k == Cardinality({j \in 1..Len(sorted) :
                                  sorted[j].relevance_score > g.relevance_score})
         IN sort_ties_reversed(grants, i + 1, insert_at(sorted, g, k))

RECURSIVE sort_by_score_desc(_, _, _)
sort_by_score_desc(grants, i, sorted) ==
    IF i > Len(grants) THEN sorted
    ELSE LET g == grants[i]
             k == Cardinality({j \in 1..Len(sorted) :
                                  sorted[j].relevance_score >= g.relevance_score})
         IN sort_by_score_desc(grants, i + 1, insert_at(sorted, g, k))

(***************************************************************************)
(* run(), step by step.                                                    *)
(***************************************************************************)
Idle == {"idle", "done", "aborted"}

Abort(exc) ==
    /\ pc' = "aborted"
    /\ error' = exc

\* lines 441-442: load the prior catalog and read its ids
StartRun ==
    /\ pc \in Idle
    /\ runs < MaxRuns
    /\ runs' = runs + 1
    /\ all_grants' = <<>>
    /\ unique' = <<>>
    /\ LET loaded == load_existing(file)
       IN IF loaded.raised # "none"
          THEN /\ Abort(loaded.raised)
               /\ UNCHANGED <<existing, existing_ids>>
          ELSE IF existing_ids_raises(loaded.value) # "none"
          THEN /\ Abort(existing_ids_raises(loaded.value))
               /\ existing' = loaded.value
               /\ UNCHANGED existing_ids
          ELSE /\ pc' = "loaded"
               /\ error' = "none"
               /\ existing' = loaded.value
               /\ existing_ids' = ids_of(loaded.value)
    /\ UNCHANGED <<worldVars, scoreVars, canpanVars, file, today>>

\* line 448
ScrapeCanpan ==
    /\ pc = "loaded"
    /\ LET r == scrape_canpan(canpanPages, canpanDetail, today)
       IN IF r.raised
          THEN /\ Abort("OverflowError")
               /\ UNCHANGED all_grants
          ELSE /\ pc' = "canpan_done"
               /\ all_grants' = all_grants \o r.grants
               /\ UNCHANGED error
    /\ UNCHANGED <<worldVars, scoreVars, canpanVars, file, today, runs, existing, existing_ids, unique>>

\* line 451
ScrapeNpoweb ==
    /\ pc = "canpan_done"
    /\ pc' = "npoweb_done"
    /\ all_grants' = all_grants \o scrape_npoweb_rss(rssFeed, today)
    /\ UNCHANGED <<worldVars, scoreVars, canpanVars, file, today, runs, existing, existing_ids,
                   unique, error>>

\* line 454
ScrapeJfc ==
    /\ pc = "npoweb_done"
    /\ pc' = "jfc_done"
    /\ all_grants' = all_grants \o scrape_jfc(jfcPage, today)
    /\ UNCHANGED <<worldVars, scoreVars, canpanVars, file, today, runs, existing, existing_ids,
                   unique, error>>

\* lines 458-465
Dedup ==
    /\ pc = "jfc_done"
    /\ pc' = "deduped"
    /\ unique' = dedup(all_grants, 1, {}, <<>>)
    /\ UNCHANGED <<worldVars, scoreVars, canpanVars, file, today, runs, existing, existing_ids,
                   all_grants, error>>

\* lines 467-517
FilterSortSave ==
    /\ pc = "deduped"
    /\ pc' = "done"
    /\ LET filtered == filter_loop(unique, 1, <<>>, existing_ids, today)
           data == [last_updated |-> Some(<<today, runs>>),
                    grants |-> sort_by_score_desc(filtered, 1, <<>>)]
       IN file' = save_grants(data)
    /\ UNCHANGED <<worldVars, scoreVars, canpanVars, today, runs, existing, existing_ids,
                   all_grants, unique, error>>

\* the calendar date advances between invocations (day 1 is the day of the first)
Tick ==
    /\ pc \in {"done", "aborted"}
    /\ today < MaxDay
    /\ today' = today + 1
    /\ UNCHANGED <<worldVars, scoreVars, canpanVars, file, pc, runs, existing, existing_ids,
                   all_grants, unique, error>>

(***************************************************************************)
(* Initial states: what the three sites serve (MaxEntries items in all;    *)
(* the detail page of URL 1 is any of DetailPool, the others are plain),   *)
(* what grants.json holds, nothing run yet.                                *)
(***************************************************************************)
ScoreIdle ==
    /\ sGrant = [name |-> <<>>, summary |-> <<>>, categories |-> <<>>, full_text |-> <<>>]
    /\ sKw = [kw |-> <<>>, priority |-> "high", place |-> "field"]
    /\ sHigh = <<>>
    /\ sLow = <<>>
    /\ sBefore = [score |-> 0, matched |-> <<>>]
    /\ sAfter = [score |-> 0, matched |-> <<>>]
    /\ sPc = "off"

CanpanIdle ==
    /\ cPc = "off"
    /\ cPage = 1
    /\ cGrants = <<>>
    /\ cSeen = {}
    /\ cFetched = 0
    /\ cLog = <<>>

FetchedUrls(pages) ==
    LET listed == canpan_pages(pages, 1, <<>>, {}, 1).grants
    IN {listed[i].url : i \in 1..Len(listed)}

Init ==
    /\ \E a \in 0..MaxEntries : \E b \in 0..(MaxEntries - a) :
         /\ canpanPages \in {<<FailedPage>>}
                \cup {IF ls = <<>> THEN <<>> ELSE <<[ok |-> TRUE, links |-> ls]>> :
                        ls \in [1..a -> CanpanLinkPool]}
         /\ rssFeed \in [1..b -> RssPool]
         /\ jfcPage \in {[ok |-> FALSE, anchors |-> <<>>]}
                \cup {[ok |-> TRUE, anchors |-> as] :
                        as \in SeqsUpTo(JfcPool, MaxEntries - a - b)}
    /\ canpanDetail \in {[u \in Urls |-> IF u = 1 THEN d1 ELSE PlainDetail] :
                           d1 \in IF 1 \in FetchedUrls(canpanPages)
                                  THEN DetailPool ELSE {PlainDetail}}
    /\ file \in InitFiles
    /\ today = 1
    /\ pc = "idle"
    /\ runs = 0
    /\ existing = DefaultCatalog
    /\ existing_ids = {}
    /\ all_grants = <<>>
    /\ unique = <<>>
    /\ error = "none"
    /\ ScoreIdle
    /\ CanpanIdle

Next ==
    \/ StartRun
    \/ ScrapeCanpan
    \/ ScrapeNpoweb
    \/ ScrapeJfc
    \/ Dedup
    \/ FilterSortSave
    \/ Tick

Spec == Init /\ [][Next]_vars

(***************************************************************************)
(* The scorer on its own: score_grant applied to a grant, and to the same  *)
(* grant with one configured keyword added to its text, under keyword      *)
(* lists drawn from KwPool (entries may repeat or contain one another).    *)
(* The keyword is added as a field of its own (score_grant joins fields    *)
(* with a space) or appended to the name.                                  *)
(***************************************************************************)
KwPool == {<<"a">>, <<"b">>, <<"a", "b">>}
ScoreNames == SeqsUpTo({"a", "b"}, MaxTextLen)

AddKeyword(grant, k) ==
    IF k.place = "field" THEN [grant EXCEPT !.summary = k.kw]
    ELSE [grant EXCEPT !.name = @ \o k.kw]

InitScore ==
    /\ canpanPages = <<>>
    /\ canpanDetail = [u \in Urls |-> PlainDetail]
    /\ rssFeed = <<>>
    /\ jfcPage = [ok |-> FALSE, anchors |-> <<>>]
    /\ file = [kind |-> "absent", last_updated |-> None, grants |-> <<>>]
    /\ today = 1
    /\ pc = "idle"
    /\ runs = 0
    /\ existing = DefaultCatalog
    /\ existing_ids = {}
    /\ all_grants = <<>>
    /\ unique = <<>>
    /\ error = "none"
    /\ sHigh \in SeqsUpTo(KwPool, MaxKeywords)
    /\ sLow \in SeqsUpTo(KwPool, 1)
    /\ \E n \in ScoreNames :
         sGrant = [name |-> n, summary |-> <<>>, categories |-> <<>>, full_text |-> <<>>]
    /\ \E pr \in {"high", "low"} :
         \E i \in 1..Len(IF pr = "high" THEN sHigh ELSE sLow) :
           \E pl \in {"field", "name"} :
             sKw = [kw |-> (IF pr = "high" THEN sHigh ELSE sLow)[i],
                    priority |-> pr, place |-> pl]
    /\ sBefore = [score |-> 0, matched |-> <<>>]
    /\ sAfter = [score |-> 0, matched |-> <<>>]
    /\ sPc = "ready"
    /\ CanpanIdle

ScoreBase ==
    /\ sPc = "ready"
    /\ sPc' = "base"
    /\ sBefore' = score_with(sGrant, sHigh, sLow)
    /\ UNCHANGED <<worldVars, runVars, canpanVars, sGrant, sKw, sHigh, sLow, sAfter>>

ScoreExtended ==
    /\ sPc = "base"
    /\ sPc' = "scored"
    /\ sAfter' = score_with(AddKeyword(sGrant, sKw), sHigh, sLow)
    /\ UNCHANGED <<worldVars, runVars, canpanVars, sGrant, sKw, sHigh, sLow, sBefore>>

NextScore ==
    \/ ScoreBase
    \/ ScoreExtended

SpecScore == InitScore /\ [][NextScore]_vars

(***************************************************************************)
(* scrape_canpan on its own, one request at a time: the listing loop       *)
(* issues one _get per iteration, the detail loop one _get per grant.      *)
(* The site answers each listing request with a failure or a page of its   *)
(* choice, MaxListed links in all; canpanPages holds the pages served.     *)
(***************************************************************************)
\* the pages holding n links: a failed fetch holds none
ListingPages(n) ==
    {[ok |-> TRUE, links |-> ls] : ls \in [1..n -> CanpanLinkPool]}
    \cup (IF n = 0 THEN {FailedPage} ELSE {})

\* the links of the first n listing pages, in page order
RECURSIVE LinksUpTo(_)
LinksUpTo(n) ==
    IF n = 0 THEN <<>> ELSE LinksUpTo(n - 1) \o listing_page(canpanPages, n).links

\* detail URLs in a page's links that seen_urls does not hold yet
fresh_urls(links, seen_urls) == {links[i].num : i \in 1..Len(links)} \ seen_urls

InitCanpan ==
    /\ canpanPages = <<>>
    /\ canpanDetail \in {[u \in Urls |-> IF u = 1 THEN d1 ELSE PlainDetail] :
                           d1 \in {PlainDetail, FailedDetail,
                                   [ok |-> TRUE, text |-> <<"hugeman">>,
                                    categories |-> <<>>, deadline |-> NoDeadline]}}
    /\ rssFeed = <<>>
    /\ jfcPage = [ok |-> FALSE, anchors |-> <<>>]
    /\ file = [kind |-> "absent", last_updated |-> None, grants |-> <<>>]
    /\ today = 1
    /\ pc = "idle"
    /\ runs = 0
    /\ existing = DefaultCatalog
    /\ existing_ids = {}
    /\ all_grants = <<>>
    /\ unique = <<>>
    /\ error = "none"
    /\ ScoreIdle
    /\ cPc = "listing"
    /\ cPage = 1
    /\ cGrants = <<>>
    /\ cSeen = {}
    /\ cFetched = 0
    /\ cLog = <<>>

\* lines 150-208: one iteration of `for page_num in range(1, MAX_PAGES + 1)`
RequestPage ==
    /\ cPc = "listing"
    /\ \E n \in 0..(MaxListed - Len(LinksUpTo(Len(canpanPages)))) :
         \E page \in ListingPages(n) :
           LET r == canpan_links(page.links, 1, cGrants, cSeen, today)
           IN /\ canpanPages' = Append(canpanPages, page)
              /\ cLog' = Append(cLog, [kind |-> "page", num |-> cPage, ok |-> page.ok,
                                       links |-> Len(page.links),
                                       fresh |-> Cardinality(fresh_urls(page.links, cSeen))])
              /\ IF listing_stops(page)
                 THEN /\ cPc' = "details"
                      /\ UNCHANGED <<cPage, cGrants, cSeen>>
                 ELSE /\ cGrants' = r.grants
                      /\ cSeen' = r.seen_urls
                      /\ cPage' = cPage + 1
                      /\ cPc' = IF cPage + 1 > MAX_PAGES THEN "details" ELSE "listing"
    /\ UNCHANGED <<canpanDetail, rssFeed, jfcPage, runVars, scoreVars, cFetched>>

\* lines 212-215: one iteration of `for grant in grants`
FetchDetail ==
    /\ cPc = "details"
    /\ cFetched < Len(cGrants)
    /\ LET g == cGrants[cFetched + 1]
           page == canpanDetail[g.url]
           d == scrape_canpan_detail(page)
       IN /\ cLog' = Append(cLog, [kind |-> "detail", num |-> g.url, ok |-> page.ok,
                                   links |-> 0, fresh |-> 0])
          /\ IF scrape_canpan_detail_raises(page)
             THEN /\ cPc' = "raised"
                  /\ UNCHANGED <<cGrants, cFetched>>
             ELSE /\ cGrants' = [cGrants EXCEPT ![cFetched + 1] =
                                   [id |-> g.id, name |-> g.name, url |-> g.url,
                                    source |-> g.source, summary |-> d.summary,
                                    categories |-> d.categories, deadline |-> d.deadline,
                                    amount_value |-> d.amount_value,
                                    found_date |-> g.found_date,
                                    full_text |-> d.full_text]]
                  /\ cFetched' = cFetched + 1
                  /\ UNCHANGED cPc
    /\ UNCHANGED <<worldVars, runVars, scoreVars, cPage, cSeen>>

\* line 217
ReturnGrants ==
    /\ cPc = "details"
    /\ cFetched = Len(cGrants)
    /\ cPc' = "returned"
    /\ UNCHANGED <<worldVars, runVars, scoreVars, cPage, cGrants, cSeen, cFetched, cLog>>

NextCanpan ==
    \/ RequestPage
    \/ FetchDetail
    \/ ReturnGrants

SpecCanpan == InitCanpan /\ [][NextCanpan]_vars

(***************************************************************************)
(* Properties.                                                             *)
(***************************************************************************)
Saved == pc = "done"
\* the catalog loaded at the start of this run was written by the run before
LoadedFromPriorRun == existing.kind = "dict" /\ existing.last_updated # None
Indices(s) == 1..Len(s)
WithoutIsNew(grants) == [i \in Indices(grants) |-> [grants[i] EXCEPT !.is_new = FALSE]]

\* C1: two runs in a row against the same remote content save catalogs that are
\* identical (records, order, every field including found_date) except for
\* last_updated and is_new.
C1_RerunSavesSameCatalog ==
    (Saved /\ LoadedFromPriorRun) =>
        WithoutIsNew(file.grants) = WithoutIsNew(existing.grants)

\* C2: in a saved catalog is_new is true exactly for the records whose id was
\* absent from the catalog load_existing() returned at the start of that run; so
\* a record saved by the run before is saved again with is_new false.
C2_IsNewIffAbsentFromLoaded ==
    Saved =>
        \A i \in Indices(file.grants) :
            file.grants[i].is_new
                <=> ~(\E j \in Indices(existing.grants) :
                        existing.grants[j].id = file.grants[i].id)

C2_Witness ==
    /\ Saved
    /\ LoadedFromPriorRun
    /\ \E i \in Indices(file.grants) : ~file.grants[i].is_new

\* C3: a record whose id is already in the prior catalog is saved with the
\* found_date it was first saved with, also when the run is on a later date.
C3_FoundDateSetOnce ==
    (Saved /\ LoadedFromPriorRun) =>
        \A i \in Indices(file.grants) : \A j \in Indices(existing.grants) :
            existing.grants[j].id = file.grants[i].id
                => file.grants[i].found_date = existing.grants[j].found_date

\* C4: after the dedup pass, of the aggregated records sharing a URL exactly one
\* survives: the first in collection order, CANPAN before NPOWEB before JFC.
SourceRank(source) ==
    CASE source = "CANPAN" -> 1 [] source = "NPOWEB" -> 2 [] source = "JFC" -> 3

C4_FirstPerUrlSurvives ==
    (pc \in {"deduped", "done"}) =>
        \A i \in Indices(all_grants) :
            LET u == all_grants[i].url
                first == CHOOSE a \in Indices(all_grants) :
                            /\ all_grants[a].url = u
                            /\ \A b \in Indices(all_grants) :
                                 all_grants[b].url = u => a <= b
                kept == {k \in Indices(unique) : unique[k].url = u}
            IN /\ Cardinality(kept) = 1
               /\ \A k \in kept :
                    /\ unique[k] = all_grants[first]
                    /\ SourceRank(unique[k].source) <= SourceRank(all_grants[i].source)

C4_Witness ==
    /\ pc = "deduped"
    /\ \E i, j \in Indices(all_grants) :
         /\ i < j
         /\ all_grants[i].url = all_grants[j].url
         /\ all_grants[i] # all_grants[j]
    /\ Len(unique) < Len(all_grants)

\* C5: all ids of a saved catalog are pairwise distinct.
C5_SavedIdsDistinct ==
    Saved =>
        \A i, j \in Indices(file.grants) :
            i # j => file.grants[i].id # file.grants[j].id

\* C6: no saved record has a known amount_value (0 included) below
\* AMOUNT_THRESHOLD: the amount predicate passes only unknown or at-least-floor.
C6_KnownBelowFloorExcluded ==
    Saved =>
        \A i \in Indices(file.grants) :
            \/ file.grants[i].amount_value = None
            \/ file.grants[i].amount_value[1] >= AMOUNT_THRESHOLD

\* C7: no exception raised inside one source's extraction aborts run().
SourceErrors == {"OverflowError"}
C7_SourceFailureNeverAbortsRun == ~(pc = "aborted" /\ error \in SourceErrors)

\* C8: an unreadable or malformed prior catalog file never aborts run().
LoadErrors == {"UnicodeDecodeError", "AttributeError", "TypeError", "KeyError"}
C8_CorruptPriorNeverFatal == ~(pc = "aborted" /\ error \in LoadErrors)

\* C9 as stated: adding one keyword that did not match before raises the score by
\* exactly 2 (high-priority) or exactly 1 (low-priority), for any keyword lists.
ScoredText(grant) == score_text(grant)
C9_AddedKeywordAddsItsWeight ==
    (sPc = "scored" /\ ~Contains(sKw.kw, ScoredText(sGrant))) =>
        sAfter.score = sBefore.score + (IF sKw.priority = "high" THEN 2 ELSE 1)

\* C9 amended: the score rises by 2 for every high-priority entry and by 1 for
\* every low-priority entry that newly matches, hence by exactly 2 (or 1) when the
\* added keyword is the only entry that newly matches; an entry that matched
\* already adds nothing however often it occurs; text matching no entry scores 0.
NewlyMatching(kws) ==
    {k \in Indices(kws) :
        /\ Contains(kws[k], ScoredText(AddKeyword(sGrant, sKw)))
        /\ ~Contains(kws[k], ScoredText(sGrant))}
Matching(kws, grant) == {k \in Indices(kws) : Contains(kws[k], ScoredText(grant))}

C9_EachNewMatchAddsItsWeight ==
    /\ sPc \in {"base", "scored"} =>
         /\ sBefore.score = 2 * Cardinality(Matching(sHigh, sGrant))
                            + Cardinality(Matching(sLow, sGrant))
         /\ (Matching(sHigh, sGrant) = {} /\ Matching(sLow, sGrant) = {})
                => sBefore.score = 0
    /\ sPc = "scored" =>
         /\ sAfter.score = sBefore.score + 2 * Cardinality(NewlyMatching(sHigh))
                                          + Cardinality(NewlyMatching(sLow))
         /\ (Cardinality(NewlyMatching(sHigh)) + Cardinality(NewlyMatching(sLow)) = 1)
                => sAfter.score = sBefore.score
                                  + (IF NewlyMatching(sHigh) # {} THEN 2 ELSE 1)

C9_Witness ==
    /\ sPc = "scored"
    /\ ~Contains(sKw.kw, ScoredText(sGrant))
    /\ Cardinality(NewlyMatching(sHigh)) + Cardinality(NewlyMatching(sLow)) = 1
    /\ sBefore.score > 0
    /\ sAfter.score = sBefore.score + 2

\* C10: a saved catalog is in descending relevance_score order, and records of
\* equal score keep the order they had after aggregation and dedup.
DiscoveryPos(url) == CHOOSE k \in Indices(unique) : unique[k].url = url

C10_SortedDescendingStable ==
    Saved =>
        \A i, j \in Indices(file.grants) :
            i < j =>
                /\ file.grants[i].relevance_score >= file.grants[j].relevance_score
                /\ file.grants[i].relevance_score = file.grants[j].relevance_score
                     => DiscoveryPos(file.grants[i].url) < DiscoveryPos(file.grants[j].url)

C10_Witness ==
    /\ Saved
    /\ \E i, j \in Indices(file.grants) :
         /\ i < j
         /\ file.grants[i].relevance_score = file.grants[j].relevance_score

\* C11: the expiry predicate excludes a record exactly when its deadline is a
\* well-formed date strictly before the date of the run; a deadline equal to that
\* date, empty, or naming no calendar date never excludes, and raises no error.
RunDay == file.last_updated[1][1]
IsSaved(url) == \E i \in Indices(file.grants) : file.grants[i].url = url
PassesBeforeExpiry(g) ==
    /\ 2 * Cardinality(Matching(HIGH_PRIORITY_KEYWORDS, g))
         + Cardinality(Matching(LOW_PRIORITY_KEYWORDS, g)) >= SCORE_THRESHOLD
    /\ ~AnyContained(EXCLUDED_REGION_PATTERNS, g.full_text)
    /\ ~AnyContained(EXCLUDE_KEYWORDS, g.name \o g.categories)
    /\ ~amount_excluded(g.amount_value)
Expired(g) == g.deadline.shape = "ymd" /\ g.deadline.day < RunDay

C11_ExpiredExactlyWhenDateBeforeToday ==
    Saved =>
        /\ error = "none"
        /\ \A k \in Indices(unique) :
             PassesBeforeExpiry(unique[k])
                => (~IsSaved(unique[k].url) <=> Expired(unique[k]))
        /\ \A i \in Indices(file.grants) : ~Expired(file.grants[i])

C11_Witness ==
    /\ Saved
    /\ \E k \in Indices(unique) :
         /\ PassesBeforeExpiry(unique[k])
         /\ Expired(unique[k])
         /\ ~IsSaved(unique[k].url)

\* C12: every saved record has relevance_score >= SCORE_THRESHOLD, full text free
\* of every excluded-region pattern, and name+categories free of every exclude
\* keyword; a record scoring below the threshold is never saved.
ScoreOf(g) ==
    2 * Cardinality(Matching(HIGH_PRIORITY_KEYWORDS, g))
    + Cardinality(Matching(LOW_PRIORITY_KEYWORDS, g))

C12_SavedPassedScoreRegionExclude ==
    Saved =>
        /\ \A i \in Indices(file.grants) :
             LET g == file.grants[i]
                 u == unique[DiscoveryPos(g.url)]
             IN /\ g.relevance_score = ScoreOf(u)
                /\ g.relevance_score >= SCORE_THRESHOLD
                /\ ~AnyContained(EXCLUDED_REGION_PATTERNS, u.full_text)
                /\ ~AnyContained(EXCLUDE_KEYWORDS, g.name \o g.categories)
        /\ \A k \in Indices(unique) :
             ScoreOf(unique[k]) < SCORE_THRESHOLD => ~IsSaved(unique[k].url)

C12_Witness ==
    /\ Saved
    /\ file.grants # <<>>
    /\ \E k \in Indices(unique) :
         /\ ScoreOf(unique[k]) < SCORE_THRESHOLD
         /\ ~IsSaved(unique[k].url)

(***************************************************************************)
(* scrape_canpan's requests.                                               *)
(***************************************************************************)
PageLog == SelectSeq(cLog, LAMBDA e : e.kind = "page")
DetailLog == SelectSeq(cLog, LAMBDA e : e.kind = "detail")
ListingOver == cPc \in {"details", "returned", "raised"}

\* pages are requested as 1, 2, ..., never more than MAX_PAGES of them, and no
\* listing page is requested once a detail page has been
RequestsInOrder ==
    /\ \A i \in Indices(PageLog) : PageLog[i].num = i
    /\ Len(canpanPages) = Len(PageLog)
    /\ Len(PageLog) <= MAX_PAGES
    /\ \A i, j \in Indices(cLog) :
         (i < j /\ cLog[i].kind = "detail") => cLog[j].kind = "detail"
    /\ cPc = "listing" => DetailLog = <<>>

\* URLs of the links that are the first of their URL, titled and not closed
RECURSIVE KeptUrls(_, _)
KeptUrls(links, k) ==
    IF k = 0 THEN <<>>
    ELSE IF /\ \A j \in 1..(k - 1) : links[j].num # links[k].num
            /\ links[k].title # <<>>
            /\ ~links[k].closed
         THEN Append(KeptUrls(links, k - 1), links[k].num)
         ELSE KeptUrls(links, k - 1)

\* pagination never raises and keeps what the requested pages gave: the records
\* collected are those of the requested pages, they are the ones whose detail
\* pages are fetched, in order, and an exception comes from a detail page only
RecordsKept ==
    /\ [i \in Indices(cGrants) |-> cGrants[i].url]
         = KeptUrls(LinksUpTo(Len(PageLog)), Len(LinksUpTo(Len(PageLog))))
    /\ \A i \in Indices(DetailLog) : DetailLog[i].num = cGrants[i].url
    /\ cPc = "raised" =>
         /\ DetailLog # <<>>
         /\ scrape_canpan_detail_raises(canpanDetail[DetailLog[Len(DetailLog)].num])
    /\ cPc = "returned" =>
         /\ Len(DetailLog) = Len(cGrants)
         /\ cGrants = scrape_canpan(canpanPages, canpanDetail, today).grants
    /\ ListingOver =>
         Len(PageLog) = canpan_pages(canpanPages, 1, <<>>, {}, today).requests

====
